---- MODULE Spec2Model ----
(***************************************************************************)
(* sim::MCRecoPart (larsim/MCSTReco/MCRecoPart.cxx): the per-event list of *)
(* MCMiniPart records with its track-id -> position index, the mother and  *)
(* ancestor resolution over that list, the fiducial box and the reduction  *)
(* of a trajectory to its in-detector path.                                *)
(*                                                                         *)
(* Positions are 0-based as in the C++ (position i is parts[i+1]).         *)
(* One call runs at a time (the class is single-threaded): pc is "idle"    *)
(* between calls, "add_full" and "add_dropped" inside the two loops of     *)
(* AddParticles, "climb" inside the while(1) loop of AncestorTrackID and   *)
(* "returned" when a call has handed its value (op, arg, ret, thrown) to   *)
(* the caller.  AddParticles reads its vectors front to back, one element  *)
(* per loop iteration; arg holds their sizes and the elements read so far. *)
(***************************************************************************)
EXTENDS Integers, Sequences, FiniteSets, TLC

VARIABLES
  parts,         \* the std::vector<MCMiniPart> base of MCRecoPart
  track_index,   \* _track_index : std::map<size_t,size_t>
  box,           \* _x_min, _x_max, _y_min, _y_max, _z_min, _z_max
  pdg_list,      \* _pdg_list
  pc,            \* "idle" | "add_full" | "add_dropped" | "climb" | "returned"
  op,            \* the call in progress or just returned
  arg,           \* its argument
  ret,           \* its return value
  thrown,        \* TRUE when the call ended in cet::exception
  result,        \* local of AncestorTrackID
  mother_index,  \* local of AncestorTrackID
  steps,         \* iterations of the while(1) loop taken by the current call
  first_anc,     \* per position, the value the first AncestorTrackID call of
                 \* this event returned for it (NoValue before any call)
  prev_event     \* what the event before the current one left behind, noted
                 \* when the list is cleared (only while prev_event.on)

vars == <<parts, track_index, box, pdg_list, pc, op, arg, ret, thrown,
          result, mother_index, steps, first_anc, prev_event>>

-----------------------------------------------------------------------------
(* Bounds of the model *)

MaxId == 2         \* track ids of the general event family are 1..MaxId
MaxParts == 2      \* particles of one event of that family
MaxDropped == 1    \* dropped particles of one event
MaxChain == 5      \* generations of the chain event family
MaxTraj == 4       \* trajectory points of the path event family

-----------------------------------------------------------------------------
(* Constants of the program *)

\* std::numeric_limits<unsigned int>::max(); the checker's integers are 32-bit
\* signed, so the greatest unsigned value is scaled to the greatest of those
kINVALID_UINT == 2147483647

NoValue == 0 - 1

\* (unsigned int) x of an int x: a negative x wraps round from the top
UInt(x) == IF x >= 0 THEN x ELSE (x + kINVALID_UINT) + 1

Min(S) == CHOOSE x \in S : \A y \in S : x <= y
Max(S) == CHOOSE x \in S : \A y \in S : y <= x
Range(s) == {s[i] : i \in DOMAIN s}

\* (*this)[i], this->at(i)
At(ps, i) == ps[i + 1]

-----------------------------------------------------------------------------
(* _track_index *)

EmptyIndex == [t \in {} |-> 0]

\* std::map::insert / try_emplace: no effect when the key is present
MapInsert(m, k, v) ==
  IF k \in DOMAIN m THEN m
  ELSE [x \in DOMAIN m \cup {k} |-> IF x = k THEN v ELSE m[x]]

TrackToParticleIndex(idx, track_id) ==
  IF track_id \in DOMAIN idx THEN idx[track_id] ELSE kINVALID_UINT

HasDaughter(part, id) == id \in part.daughters

-----------------------------------------------------------------------------
(* MCRecoPart::MCRecoPart *)

\* the envelope of the TPC bounding boxes: std::min_element, std::max_element
FiducialBox(tpcs) ==
  [x_min |-> Min({t.MinX : t \in tpcs}), x_max |-> Max({t.MaxX : t \in tpcs}),
   y_min |-> Min({t.MinY : t \in tpcs}), y_max |-> Max({t.MaxY : t \in tpcs}),
   z_min |-> Min({t.MinZ : t \in tpcs}), z_max |-> Max({t.MaxZ : t \in tpcs})]

\* a box without its faces
InDetectorOpen(b, x, y, z) ==
  ~( x >= b.x_max \/ x <= b.x_min \/
     z >= b.z_max \/ z <= b.z_min \/
     y >= b.y_max \/ y <= b.y_min )

InDetector(b, x, y, z) ==
  ~( x > b.x_max \/ x < b.x_min \/
     z > b.z_max \/ z < b.z_min \/
     y > b.y_max \/ y < b.y_min )

-----------------------------------------------------------------------------
(* MCRecoPart::MotherTrackID *)

RECURSIVE LastWithDaughter(_, _, _)
\* a scan that does not stop at its first hit: the place of the last record
\* listing id from place k on, 0 when there is none
LastWithDaughter(ps, id, k) ==
  IF k > Len(ps) THEN 0
  ELSE IF LastWithDaughter(ps, id, k + 1) # 0 THEN LastWithDaughter(ps, id, k + 1)
  ELSE IF HasDaughter(ps[k], id) THEN k
  ELSE 0

RECURSIVE FirstWithDaughter(_, _, _)
\* for(auto const& part : *this) if(part.HasDaughter(id)): the 1-based place
\* of the first such record from place k on, 0 when there is none
FirstWithDaughter(ps, id, k) ==
  IF k > Len(ps) THEN 0
  ELSE IF HasDaughter(ps[k], id) THEN k
  ELSE FirstWithDaughter(ps, id, k + 1)

\* a MotherTrackID that answers a position past the end with 0, the id that
\* stands for "no mother"
MotherTrackIDNoSentinel(ps, idx, part_index) ==
  IF Len(ps) <= part_index THEN 0
  ELSE LET res == At(ps, part_index).mother
           daughter_id == At(ps, part_index).track_id
           k == FirstWithDaughter(ps, daughter_id, 1)
       IN  IF res = 0 THEN At(ps, part_index).track_id
           ELSE IF TrackToParticleIndex(idx, res) # kINVALID_UINT THEN res
           ELSE IF k # 0 THEN ps[k].track_id
           ELSE res

MotherTrackID(ps, idx, part_index) ==
  IF Len(ps) <= part_index THEN kINVALID_UINT
  ELSE LET res == At(ps, part_index).mother
           daughter_id == At(ps, part_index).track_id
           k == FirstWithDaughter(ps, daughter_id, 1)
       IN  IF res = 0 THEN At(ps, part_index).track_id
           ELSE IF TrackToParticleIndex(idx, res) # kINVALID_UINT THEN res
           ELSE IF k # 0 THEN ps[k].track_id
           ELSE res

-----------------------------------------------------------------------------
(* MCRecoPart::AddParticles *)

\* mini_mcp.ScaleStartMom(1.e3), vec[i] *= 1.e3
MomScale == 1000

RECURSIVE Ascending(_)
\* iteration of a std::set<size_t>: its elements in ascending order
Ascending(S) == IF S = {} THEN <<>> ELSE <<Min(S)>> \o Ascending(S \ {Min(S)})

\* the in-detector indices of a trajectory (0-based)
InDetIndices(b, traj) ==
  {i \in 0..(Len(traj) - 1) :
     InDetector(b, traj[i + 1].pos[1], traj[i + 1].pos[2], traj[i + 1].pos[3])}

\* the padding of a non-empty det_path_index of a trajectory of n points
PadIndices(S, n) ==
  LET s1 == IF Min(S) # 0 THEN S \cup {Min(S) - 1} ELSE S
  IN  IF Cardinality(s1) > 1
      THEN IF Max(s1) + 1 < n THEN s1 \cup {Max(s1) + 1} ELSE s1
      ELSE s1

\* det_path: one (position, momentum in MeV) pair per index, ascending
PathAt(traj, S) ==
  LET order == Ascending(S)
  IN  [k \in 1..Len(order) |->
         [pos |-> traj[order[k] + 1].pos, mom |-> traj[order[k] + 1].mom * MomScale]]

\* a path reduction that does not look at the species
DetPathAnySpecies(b, pdgs, mcp) ==
  LET det_path_index == InDetIndices(b, mcp.Traj)
  IN  IF det_path_index # {}
      THEN PathAt(mcp.Traj, PadIndices(det_path_index, Len(mcp.Traj)))
      ELSE <<>>

DetPath(b, pdgs, mcp) ==
  IF mcp.PdgCode \in pdgs
  THEN LET det_path_index == InDetIndices(b, mcp.Traj)
       IN  IF det_path_index # {}
           THEN PathAt(mcp.Traj, PadIndices(det_path_index, Len(mcp.Traj)))
           ELSE <<>>
  ELSE <<>>

\* the MCMiniPart built from one simb::MCParticle and its origin
MiniFromMCParticle(b, pdgs, mcp, origin) ==
  [track_id  |-> UInt(mcp.TrackId),
   pdg       |-> mcp.PdgCode,
   mother    |-> UInt(mcp.Mother),
   ancestor  |-> kINVALID_UINT,
   daughters |-> {UInt(d) : d \in Range(mcp.Daughters)},
   origin    |-> origin,
   start_mom |-> mcp.Traj[1].mom * MomScale,
   det_path  |-> DetPath(b, pdgs, mcp)]

\* an index store that takes the size of the list after the push_back
IndexFullAfterPush(idx, track_id, pos) == MapInsert(idx, track_id, pos + 1)

\* _track_index.insert(std::make_pair(mcp.TrackId(), this->size()))
IndexFull(idx, track_id, pos) == MapInsert(idx, track_id, pos)

\* an index store for dropped particles that overwrites the full particle's
IndexDroppedAssign(idx, track_id, pos) ==
  [x \in DOMAIN idx \cup {track_id} |-> IF x = track_id THEN pos ELSE idx[x]]

\* _track_index.try_emplace(mcmp.TrackID(), this->size())
IndexDropped(idx, track_id, pos) == MapInsert(idx, track_id, pos)

\* this->push_back(mcmp), which follows the try_emplace whatever it did
PushDropped(ps, idx, mcmp) == Append(ps, mcmp)

\* where AddParticles stands once `done` particles and `dropped` dropped
\* particles have been read
AddPc(a, done, dropped) ==
  IF done < a.n_mcp THEN "add_full"
  ELSE IF dropped < a.n_mcmp THEN "add_dropped"
  ELSE "returned"

\* no event came before; events are noted (Watched) or not (Unwatched)
Unwatched == [on |-> FALSE, ids |-> {}, cached |-> FALSE]
Watched == [on |-> TRUE, ids |-> {}, cached |-> FALSE]

\* what is about to be cleared: the track ids of the index and whether a
\* record holds a cached ancestor
NotePrevious(prev, ps, idx) ==
  IF prev.on
  THEN [on |-> TRUE, ids |-> DOMAIN idx,
        cached |-> \E i \in 1..Len(ps) : ps[i].ancestor # kINVALID_UINT]
  ELSE prev

\* an AddParticles that clears before it compares the sizes
AddParticlesClearFirst(n_mcp, n_orig, n_mcmp) ==
  LET a == [n_mcp |-> n_mcp, n_orig |-> n_orig, n_mcmp |-> n_mcmp,
            mcp_v |-> <<>>, orig_v |-> <<>>, mcmp_v |-> <<>>]
  IN  /\ pc = "idle"
      /\ op' = "AddParticles"
      /\ arg' = a
      /\ ret' = 0
      /\ parts' = <<>>
      /\ track_index' = EmptyIndex
      /\ first_anc' = <<>>
      /\ thrown' = (n_orig # n_mcp)
      /\ pc' = IF n_orig # n_mcp THEN "returned" ELSE AddPc(a, 0, 0)
      /\ UNCHANGED <<box, pdg_list, result, mother_index, steps, prev_event>>

\* an AddParticles that appends to what the event before left
AddParticlesNoClear(n_mcp, n_orig, n_mcmp) ==
  LET a == [n_mcp |-> n_mcp, n_orig |-> n_orig, n_mcmp |-> n_mcmp,
            mcp_v |-> <<>>, orig_v |-> <<>>, mcmp_v |-> <<>>]
  IN  /\ pc = "idle"
      /\ op' = "AddParticles"
      /\ arg' = a
      /\ ret' = 0
      /\ thrown' = (n_orig # n_mcp)
      /\ pc' = IF n_orig # n_mcp THEN "returned" ELSE AddPc(a, 0, 0)
      /\ prev_event' =
           IF n_orig # n_mcp THEN prev_event
           ELSE NotePrevious(prev_event, parts, track_index)
      /\ UNCHANGED <<parts, track_index, first_anc, box, pdg_list, result,
                     mother_index, steps>>

\* AddParticles up to its first loop, called with vectors of these sizes
AddParticles(n_mcp, n_orig, n_mcmp) ==
  LET a == [n_mcp |-> n_mcp, n_orig |-> n_orig, n_mcmp |-> n_mcmp,
            mcp_v |-> <<>>, orig_v |-> <<>>, mcmp_v |-> <<>>]
  IN  /\ pc = "idle"
      /\ op' = "AddParticles"
      /\ arg' = a
      /\ ret' = 0
      /\ IF n_orig # n_mcp
         THEN /\ thrown' = TRUE
              /\ pc' = "returned"
              /\ UNCHANGED <<parts, track_index, first_anc, prev_event>>
         ELSE /\ thrown' = FALSE
              /\ parts' = <<>>
              /\ track_index' = EmptyIndex
              /\ first_anc' = <<>>
              /\ prev_event' = NotePrevious(prev_event, parts, track_index)
              /\ pc' = AddPc(a, 0, 0)
      /\ UNCHANGED <<box, pdg_list, result, mother_index, steps>>

\* one iteration of the loop over mcp_v, reading mcp_v[i] and orig_v[i]
AddFull(mcp, origin) ==
  /\ pc = "add_full"
  /\ track_index' = IndexFull(track_index, UInt(mcp.TrackId), Len(parts))
  /\ parts' = Append(parts, MiniFromMCParticle(box, pdg_list, mcp, origin))
  /\ first_anc' = Append(first_anc, NoValue)
  /\ arg' = [arg EXCEPT !.mcp_v = Append(@, mcp), !.orig_v = Append(@, origin)]
  /\ pc' = AddPc(arg, Len(arg.mcp_v) + 1, 0)
  /\ UNCHANGED <<box, pdg_list, op, ret, thrown, result, mother_index, steps,
                 prev_event>>

\* one iteration of the loop over mcmp_v
AddDropped(mcmp) ==
  /\ pc = "add_dropped"
  /\ track_index' = IndexDropped(track_index, mcmp.track_id, Len(parts))
  /\ parts' = PushDropped(parts, track_index, mcmp)
  /\ first_anc' = [i \in 1..Len(parts') |-> NoValue]
  /\ arg' = [arg EXCEPT !.mcmp_v = Append(@, mcmp)]
  /\ pc' = AddPc(arg, arg.n_mcp, Len(arg.mcmp_v) + 1)
  /\ UNCHANGED <<box, pdg_list, op, ret, thrown, result, mother_index, steps,
                 prev_event>>

-----------------------------------------------------------------------------
(* The queries *)

\* the call hands v to the caller
Return(v) ==
  /\ pc' = "returned"
  /\ ret' = v
  /\ thrown' = FALSE

MotherTrackIDCall(part_index) ==
  /\ pc = "idle"
  /\ op' = "MotherTrackID"
  /\ arg' = part_index
  /\ Return(MotherTrackID(parts, track_index, part_index))
  /\ UNCHANGED <<parts, track_index, box, pdg_list, result, mother_index, steps,
                 first_anc, prev_event>>

\* a caller asks whether the point (x, y, z) is in the detector
InDetectorCall(x, y, z) ==
  /\ pc = "idle"
  /\ op' = "InDetector"
  /\ arg' = <<x, y, z>>
  /\ Return(InDetector(box, x, y, z))
  /\ UNCHANGED <<parts, track_index, box, pdg_list, result, mother_index, steps,
                 first_anc, prev_event>>

\* a store of the record's mother id in place of the climb's result
StoreMother(ps, part_index, v) ==
  [ps EXCEPT ![part_index + 1].ancestor = ps[part_index + 1].mother]

\* a store that always writes the first record, whatever the position asked
StoreFront(ps, part_index, v) == [ps EXCEPT ![1].ancestor = v]

\* a store that caches the result on every record that has no ancestor yet
StoreUnset(ps, part_index, v) ==
  [i \in 1..Len(ps) |->
     IF ps[i].ancestor = kINVALID_UINT THEN [ps[i] EXCEPT !.ancestor = v] ELSE ps[i]]

\* (*this)[part_index].Ancestor(result)
StoreAncestor(ps, part_index, v) == [ps EXCEPT ![part_index + 1].ancestor = v]

\* the first value AncestorTrackID returned for a valid position
NoteFirst(fa, part_index, v) ==
  IF fa[part_index + 1] = NoValue THEN [fa EXCEPT ![part_index + 1] = v] ELSE fa

\* AncestorTrackID up to the while(1) loop
AncestorTrackID(part_index) ==
  /\ pc = "idle"
  /\ op' = "AncestorTrackID"
  /\ arg' = part_index
  /\ steps' = 0
  /\ IF part_index >= Len(parts)
     THEN /\ Return(kINVALID_UINT)
          /\ UNCHANGED <<result, mother_index, first_anc>>
     ELSE IF At(parts, part_index).ancestor # kINVALID_UINT
     THEN /\ Return(At(parts, part_index).ancestor)
          /\ first_anc' = NoteFirst(first_anc, part_index, At(parts, part_index).ancestor)
          /\ UNCHANGED <<result, mother_index>>
     ELSE LET r == MotherTrackID(parts, track_index, part_index)
          IN  IF r = At(parts, part_index).track_id
              THEN /\ Return(r)
                   /\ first_anc' = NoteFirst(first_anc, part_index, r)
                   /\ UNCHANGED <<result, mother_index>>
              ELSE IF r = 0
              THEN /\ Return(At(parts, part_index).track_id)
                   /\ first_anc' =
                        NoteFirst(first_anc, part_index, At(parts, part_index).track_id)
                   /\ UNCHANGED <<result, mother_index>>
              ELSE /\ pc' = "climb"
                   /\ result' = r
                   /\ mother_index' = TrackToParticleIndex(track_index, r)
                   /\ UNCHANGED <<ret, thrown, first_anc>>
  /\ UNCHANGED <<parts, track_index, box, pdg_list, prev_event>>

\* the loop counter stops counting here
StepCap == MaxChain + MaxParts + 1

\* the loop goes round again with the new result
ClimbOn(r) ==
  /\ result' = r
  /\ mother_index' = TrackToParticleIndex(track_index, r)
  /\ steps' = IF steps < StepCap THEN steps + 1 ELSE steps
  /\ UNCHANGED <<parts, track_index, box, pdg_list, pc, op, arg, ret, thrown,
                 first_anc, prev_event>>

\* a break that hands out the particle's own mother, whatever the loop found
ClimbBreakAtMother(r) ==
  /\ parts' = StoreAncestor(parts, arg, At(parts, arg).mother)
  /\ first_anc' = NoteFirst(first_anc, arg, At(parts, arg).mother)
  /\ Return(At(parts, arg).mother)
  /\ result' = At(parts, arg).mother
  /\ steps' = IF steps < StepCap THEN steps + 1 ELSE steps
  /\ UNCHANGED <<track_index, box, pdg_list, op, arg, mother_index, prev_event>>

\* break with r as the result, then the lines after the loop
ClimbBreak(r) ==
  /\ parts' = StoreAncestor(parts, arg, r)
  /\ first_anc' = NoteFirst(first_anc, arg, r)
  /\ Return(r)
  /\ result' = r
  /\ steps' = IF steps < StepCap THEN steps + 1 ELSE steps
  /\ UNCHANGED <<track_index, box, pdg_list, op, arg, mother_index, prev_event>>

\* a loop that stops at the first mother it finds above the particle's own
AncestorClimbOnce ==
  /\ pc = "climb"
  /\ IF mother_index # kINVALID_UINT
     THEN LET new_result == MotherTrackID(parts, track_index, mother_index)
          IN  IF new_result = At(parts, mother_index).track_id
              THEN ClimbBreak(result)
              ELSE ClimbBreak(new_result)
     ELSE LET k == FirstWithDaughter(parts, result, 1)
              found == IF k # 0 THEN parts[k].track_id ELSE result
          IN  ClimbBreak(found)

\* a loop without the daughter scan for a mother that is not in the index
AncestorClimbNoScan ==
  /\ pc = "climb"
  /\ IF mother_index # kINVALID_UINT
     THEN LET new_result == MotherTrackID(parts, track_index, mother_index)
          IN  IF new_result = At(parts, mother_index).track_id
              THEN ClimbBreak(result)
              ELSE ClimbOn(new_result)
     ELSE ClimbBreak(result)

\* one iteration of the while(1) loop of AncestorTrackID
AncestorClimb ==
  /\ pc = "climb"
  /\ IF mother_index # kINVALID_UINT
     THEN LET new_result == MotherTrackID(parts, track_index, mother_index)
          IN  IF new_result = At(parts, mother_index).track_id
              THEN ClimbBreak(result)
              ELSE ClimbOn(new_result)
     ELSE LET k == FirstWithDaughter(parts, result, 1)
              found == IF k # 0 THEN parts[k].track_id ELSE result
          IN  IF found = result THEN ClimbBreak(result) ELSE ClimbOn(found)

\* the caller takes the returned value (or the exception) and goes on
Resume ==
  /\ pc = "returned"
  /\ pc' = "idle"
  /\ op' = "none"
  /\ arg' = 0
  /\ ret' = 0
  /\ thrown' = FALSE
  /\ result' = 0
  /\ mother_index' = 0
  /\ steps' = 0
  /\ UNCHANGED <<parts, track_index, box, pdg_list, first_anc, prev_event>>

\* the positions the callers ask about: every position of the list and two
\* past its end
Positions == 0..(Len(parts) + 1)

Query ==
  \/ \E p \in Positions : MotherTrackIDCall(p)
  \/ \E p \in Positions : AncestorTrackID(p)
  \/ AncestorClimb
  \/ Resume

-----------------------------------------------------------------------------
(* Construction *)

\* geo::TPCGeo bounding boxes
TPCWhole == [MinX |-> 0, MaxX |-> 10, MinY |-> 0, MaxY |-> 10, MinZ |-> 0, MaxZ |-> 10]
TPCLeft  == [MinX |-> 0, MaxX |-> 5, MinY |-> 0, MaxY |-> 10, MinZ |-> 0, MaxZ |-> 10]
TPCRight == [MinX |-> 5, MaxX |-> 10, MinY |-> 0, MaxY |-> 10, MinZ |-> 0, MaxZ |-> 10]

\* the state the constructor leaves, for a geometry and a SavePathPDGList
Constructed(tpcs, pdgs) ==
  /\ parts = <<>>
  /\ track_index = EmptyIndex
  /\ box = FiducialBox(tpcs)
  /\ pdg_list = pdgs
  /\ pc = "idle"
  /\ op = "none"
  /\ arg = 0
  /\ ret = 0
  /\ thrown = FALSE
  /\ result = 0
  /\ mother_index = 0
  /\ steps = 0
  /\ first_anc = <<>>

-----------------------------------------------------------------------------
(* Event families.  PDG codes: 13 a muon, 11 an electron, 22 a photon.     *)

InsidePoint == [pos |-> <<5, 5, 5>>, mom |-> 1]

\* a dropped particle as the upstream stage hands it over
MiniPart(track_id, mother, daughters) ==
  [track_id |-> track_id, pdg |-> 22, mother |-> mother,
   ancestor |-> kINVALID_UINT, daughters |-> daughters, origin |-> 0,
   start_mom |-> 7, det_path |-> <<>>]

\* the general family: few records, every combination of ids, mothers and
\* single daughters, repeated ids and dangling mothers included
GenIds == 1..MaxId
GenMothers == 0..(MaxId + 1)
GenDaughters == {<<>>, <<1>>, <<MaxId + 1>>}

GenMCParticles ==
  [TrackId : GenIds, Mother : GenMothers, Daughters : GenDaughters,
   PdgCode : {13}, Traj : {<<InsidePoint>>}]

GenMiniParts == {MiniPart(t, 0, d) : t \in GenIds, d \in {{}, {1}}}

Init == Constructed({TPCWhole}, {13}) /\ prev_event = Unwatched

Next ==
  \/ \E n_mcp \in 0..MaxParts, n_orig \in 0..MaxParts, n_mcmp \in 0..MaxDropped :
       AddParticles(n_mcp, n_orig, n_mcmp)
  \/ \E mcp \in GenMCParticles : AddFull(mcp, 1)
  \/ \E mcmp \in GenMiniParts : AddDropped(mcmp)
  \/ Query

Spec == Init /\ [][Next]_vars

\* the general family with a caller that waits for AncestorTrackID: the loop
\* of a call in progress keeps running, the thread is never stopped for ever
SpecLive == Init /\ [][Next]_vars /\ WF_vars(AncestorClimb)

-----------------------------------------------------------------------------
(* The chain family: generation t of a lineage has track id t and mother   *)
(* t - 1 (the primary, generation 1, has mother 0).  An event holds any     *)
(* subset of the generations, in ascending or in descending order, so a    *)
(* generation may be missing from the middle of the chain; either every    *)
(* record lists the next generation as its daughter or none lists any.     *)
(* The middle generation may come as a dropped particle.                   *)

ChainIds == 1..MaxChain

ChainMCParticle(t, daughters) ==
  [TrackId |-> t, Mother |-> t - 1, Daughters |-> daughters,
   PdgCode |-> 13, Traj |-> <<InsidePoint>>]

Reverse(s) == [i \in 1..Len(s) |-> s[Len(s) + 1 - i]]

ChainBatches ==
  UNION {{[i \in 1..Len(o) |->
             ChainMCParticle(o[i], IF listed THEN <<o[i] + 1>> ELSE <<>>)] :
          o \in {Ascending(S), Reverse(Ascending(S))}, listed \in BOOLEAN} :
         S \in SUBSET ChainIds}

\* the elements a batch of n can show next, after those already read
ReadNext(batches, read, n) ==
  {b[Len(read) + 1] :
     b \in {c \in batches : Len(c) = n /\ SubSeq(c, 1, Len(read)) = read}}

ChainMiniParts == {MiniPart(t, t - 1, {t + 1}) : t \in {(MaxChain + 1) \div 2}}

NextChain ==
  \/ \E n_mcp \in 0..MaxChain, n_orig \in 0..MaxChain, n_mcmp \in 0..MaxDropped :
       AddParticles(n_mcp, n_orig, n_mcmp)
  \/ /\ pc = "add_full"
     /\ \E mcp \in ReadNext(ChainBatches, arg.mcp_v, arg.n_mcp) : AddFull(mcp, 1)
  \/ \E mcmp \in ChainMiniParts : AddDropped(mcmp)
  \/ Query

SpecChain == Init /\ [][NextChain]_vars

-----------------------------------------------------------------------------
(* The path family: one particle per event, of a species that is or is not *)
(* in SavePathPDGList, with every trajectory of up to MaxTraj points taken *)
(* inside, on the face of and outside the detector.                        *)

PathPoints ==
  {[pos |-> <<5, 5, 5>>, mom |-> 1], [pos |-> <<10, 5, 5>>, mom |-> 2],
   [pos |-> <<11, 5, 5>>, mom |-> 3]}

Trajectories == UNION {[1..n -> PathPoints] : n \in 1..MaxTraj}

PathMCParticles ==
  [TrackId : {1}, Mother : {0}, Daughters : {<<>>}, PdgCode : {11, 13},
   Traj : Trajectories]

InitPath ==
  /\ \E tpcs \in {{TPCWhole}, {TPCLeft, TPCRight}} : Constructed(tpcs, {13})
  /\ prev_event = Unwatched

NextPath ==
  \/ \E n_mcp \in 0..1, n_orig \in 0..1, n_mcmp \in 0..MaxDropped :
       AddParticles(n_mcp, n_orig, n_mcmp)
  \/ \E mcp \in PathMCParticles : AddFull(mcp, 1)
  \/ \E mcmp \in {MiniPart(2, 1, {})} : AddDropped(mcmp)
  \/ Query

SpecPath == InitPath /\ [][NextPath]_vars

-----------------------------------------------------------------------------
(* The replace family: events of up to MaxParts particles that are         *)
(* primaries or daughters of track 1, and one dropped particle, ingested   *)
(* one after the other with queries in between; what each event leaves     *)
(* behind is noted when the next one clears it.                            *)

ReplaceMCParticles ==
  [TrackId : GenIds, Mother : {0, 1}, Daughters : {<<>>}, PdgCode : {13},
   Traj : {<<InsidePoint>>}]

InitReplace == Constructed({TPCWhole}, {13}) /\ prev_event = Watched

NextReplace ==
  \/ \E n_mcp \in 0..MaxParts, n_orig \in 0..MaxParts, n_mcmp \in 0..MaxDropped :
       AddParticles(n_mcp, n_orig, n_mcmp)
  \/ \E mcp \in ReplaceMCParticles : AddFull(mcp, 1)
  \/ \E mcmp \in GenMiniParts : AddDropped(mcmp)
  \/ Query

SpecReplace == InitReplace /\ [][NextReplace]_vars

-----------------------------------------------------------------------------
(* The box family: the detector built from one TPC, from two TPCs side by  *)
(* side and from a slab with a different extent on every axis, asked about *)
(* points with every coordinate below, on and above the faces of the box.  *)

TPCSlab == [MinX |-> 0, MaxX |-> 10, MinY |-> 0, MaxY |-> 5, MinZ |-> 5, MaxZ |-> 11]

GridCoords == {0 - 1, 0, 5, 10, 11}

InitBox ==
  /\ \E tpcs \in {{TPCWhole}, {TPCLeft, TPCRight}, {TPCSlab}} : Constructed(tpcs, {13})
  /\ prev_event = Unwatched

NextBox ==
  \/ \E x \in GridCoords, y \in GridCoords, z \in GridCoords : InDetectorCall(x, y, z)
  \/ Resume

SpecBox == InitBox /\ [][NextBox]_vars

-----------------------------------------------------------------------------
(* The geometry family: the constructor as a call that has just ended, for *)
(* a geometry with one TPC and for a geometry without any.  Without a TPC  *)
(* std::min_element and std::max_element return the end iterator and the   *)
(* constructor dereferences it: the six bounds are then whatever lies      *)
(* there, or the process is stopped by the read.                           *)

\* what a read past the end of the TPC collection may give
GarbageBoxes ==
  [x_min : {0, 10}, x_max : {0, 10}, y_min : {0, 10}, y_max : {0, 10},
   z_min : {0, 10}, z_max : {0, 10}]

ConstructorEnds(tpcs, pdgs) ==
  /\ parts = <<>>
  /\ track_index = EmptyIndex
  /\ pdg_list = pdgs
  /\ op = "MCRecoPart"
  /\ arg = tpcs
  /\ ret = 0
  /\ thrown = FALSE
  /\ result = 0
  /\ mother_index = 0
  /\ steps = 0
  /\ first_anc = <<>>
  /\ IF tpcs # {}
     THEN /\ box = FiducialBox(tpcs)
          /\ pc = "returned"
     ELSE /\ box \in GarbageBoxes
          /\ pc \in {"returned", "aborted"}

InitGeo ==
  /\ \E tpcs \in {{}, {TPCWhole}} : ConstructorEnds(tpcs, {13})
  /\ prev_event = Unwatched

SpecGeo == InitGeo /\ [][NextBox]_vars

-----------------------------------------------------------------------------
(* Properties *)

\* a call of o has returned normally
Returned(o) == pc = "returned" /\ op = o /\ ~thrown

\* AncestorTrackID has returned for a position of the list
AncestorReturned == Returned("AncestorTrackID") /\ arg < Len(parts)

RECURSIVE RootOf(_, _, _, _)
\* the track id of the root of the record at position p: the record reached
\* by following motherId through the index until a motherId of 0; NoValue
\* when a motherId on the way is not in the index or no root is reached in
\* `fuel` records (the motherIds go round in a cycle)
RootOf(ps, idx, p, fuel) ==
  IF fuel = 0 THEN NoValue
  ELSE IF At(ps, p).mother = 0 THEN At(ps, p).track_id
  ELSE IF At(ps, p).mother \in DOMAIN idx
       THEN RootOf(ps, idx, idx[At(ps, p).mother], fuel - 1)
  ELSE NoValue

\* C1: whenever AncestorTrackID returns for a record (the one the index holds
\* for its track id) whose motherIds lead through the index to a root with
\* motherId 0, whatever the depth, it returns the track id of that root.
C1_AncestorIsRoot ==
  (/\ AncestorReturned
   /\ TrackToParticleIndex(track_index, At(parts, arg).track_id) = arg
   /\ RootOf(parts, track_index, arg, Len(parts)) # NoValue)
    => ret = RootOf(parts, track_index, arg, Len(parts))

\* C1: the fifth generation D of a complete chain primary -> A -> B -> C -> D
\* was resolved to the primary by the climb.
C1_Witness ==
  /\ AncestorReturned
  /\ {parts[i].track_id : i \in 1..Len(parts)} = 1..5
  /\ At(parts, arg).track_id = 5
  /\ RootOf(parts, track_index, arg, Len(parts)) = 1
  /\ steps = 4
  /\ ret = 1

\* the list is the chain primary(1) -> A(2) -> B(3) -> C(4) -> D(5) without
\* B, and A lists B among its daughters
GapChain ==
  /\ Len(parts) = 4
  /\ {parts[i].track_id : i \in 1..Len(parts)} = {1, 2, 4, 5}
  /\ \A i \in 1..Len(parts) : parts[i].mother = parts[i].track_id - 1
  /\ \E i \in 1..Len(parts) : parts[i].track_id = 2 /\ 3 \in parts[i].daughters

\* C2: in the chain with B missing and listed as a daughter by A,
\* AncestorTrackID of C and of D returns the primary's track id, in no more
\* loop iterations than there are records.
C2_GapResolved ==
  (AncestorReturned /\ GapChain /\ At(parts, arg).track_id \in {4, 5})
    => (ret = 1 /\ steps <= Len(parts))

\* C2: D was resolved across the gap, the climb having gone through the
\* daughter scan (C's mother B is not in the index).
C2_Witness ==
  /\ AncestorReturned
  /\ GapChain
  /\ At(parts, arg).track_id = 5
  /\ 3 \notin DOMAIN track_index
  /\ steps = 4
  /\ ret = 1

\* the 1-based places of the records that list track id t as a daughter
Listers(t) == {i \in 1..Len(parts) : t \in parts[i].daughters}

\* C3: MotherTrackID of a valid position returns the record's own track id
\* when its motherId m is 0, m when m is in the index, else the track id of the
\* first record in list order that lists the record's track id as a daughter,
\* and m when there is no such record.
C3_MotherCases ==
  (Returned("MotherTrackID") /\ arg < Len(parts))
    => LET rec == At(parts, arg)
           m == rec.mother
       IN  ret = IF m = 0 THEN rec.track_id
                 ELSE IF m \in DOMAIN track_index THEN m
                 ELSE IF Listers(rec.track_id) # {}
                      THEN parts[Min(Listers(rec.track_id))].track_id
                 ELSE m

\* C3: a mother that is not in the index was replaced by the first of two
\* records with different track ids that list the particle as a daughter.
C3_Witness ==
  /\ Returned("MotherTrackID")
  /\ arg < Len(parts)
  /\ At(parts, arg).mother # 0
  /\ At(parts, arg).mother \notin DOMAIN track_index
  /\ Cardinality(Listers(At(parts, arg).track_id)) >= 2
  /\ parts[Max(Listers(At(parts, arg).track_id))].track_id # ret
  /\ parts[Min(Listers(At(parts, arg).track_id))].track_id = ret

\* C4: AddParticles called with vectors of different sizes throws and leaves
\* the list (every cached ancestor included) and the index as they were, so
\* that MotherTrackID of every old position is what it was.
C4_ThrowCommitsNothing ==
  [][(pc = "idle" /\ op' = "AddParticles" /\ arg'.n_mcp # arg'.n_orig)
       => /\ thrown' /\ pc' = "returned"
          /\ parts' = parts
          /\ track_index' = track_index
          /\ \A p \in 0..(Len(parts) - 1) :
               MotherTrackID(parts', track_index', p)
                 = MotherTrackID(parts, track_index, p)]_vars

\* C4: AddParticles threw on a list that holds records, one of them with a
\* cached ancestor.
C4_Witness ==
  /\ pc = "returned" /\ op = "AddParticles" /\ thrown
  /\ arg.n_mcp # arg.n_orig
  /\ \E i \in 1..Len(parts) : parts[i].ancestor # kINVALID_UINT

\* AddParticles has returned without throwing; arg holds the vectors it read
Ingested == Returned("AddParticles")

\* the track ids of the particle vector and of the dropped-particle vector
FullIds == {arg.mcp_v[i].TrackId : i \in 1..Len(arg.mcp_v)}
DroppedIds == {arg.mcmp_v[i].track_id : i \in 1..Len(arg.mcmp_v)}

\* the 1-based places of the records with track id t
PlacesOf(t) == {i \in 1..Len(parts) : parts[i].track_id = t}

\* C5: after AddParticles of a particle vector with distinct track ids, every
\* track id of the two vectors has exactly one record, there are as many
\* records as index entries and the index gives every record its position.
C5_OneRecordPerId ==
  (Ingested /\ Cardinality(FullIds) = Len(arg.mcp_v))
    => /\ \A t \in FullIds \cup DroppedIds : Cardinality(PlacesOf(t)) = 1
       /\ Len(parts) = Cardinality(DOMAIN track_index)
       /\ \A i \in 1..Len(parts) :
            TrackToParticleIndex(track_index, parts[i].track_id) = i - 1

\* C6: after AddParticles the index maps every track id of the particle vector
\* to the first record built for it from that vector, whose fields are the
\* particle's own and not a dropped particle's; and it maps a track id that
\* only the dropped vector holds to the place where its first dropped record
\* was appended.
C6_FirstWriteWins ==
  Ingested
    => /\ \A i \in 1..Len(arg.mcp_v) :
            LET t == arg.mcp_v[i].TrackId
                first == Min({j \in 1..Len(arg.mcp_v) : arg.mcp_v[j].TrackId = t})
            IN  /\ TrackToParticleIndex(track_index, t) = first - 1
                /\ parts[first].track_id = t
                /\ parts[first].pdg = arg.mcp_v[first].PdgCode
                /\ parts[first].mother = arg.mcp_v[first].Mother
                /\ parts[first].daughters = Range(arg.mcp_v[first].Daughters)
                /\ parts[first].origin = arg.orig_v[first]
       /\ \A i \in 1..Len(arg.mcmp_v) :
            LET t == arg.mcmp_v[i].track_id
                first == Min({j \in 1..Len(arg.mcmp_v) : arg.mcmp_v[j].track_id = t})
            IN  t \notin FullIds
                  => /\ TrackToParticleIndex(track_index, t) = Len(arg.mcp_v) + first - 1
                     /\ parts[Len(arg.mcp_v) + first] = arg.mcmp_v[first]

\* C6: a dropped particle came with the track id of a particle of the full
\* vector and with other fields than that particle's record.
C6_Witness ==
  /\ Ingested
  /\ \E i \in 1..Len(arg.mcmp_v) :
       /\ arg.mcmp_v[i].track_id \in FullIds
       /\ At(parts, track_index[arg.mcmp_v[i].track_id]) # arg.mcmp_v[i]
       /\ track_index[arg.mcmp_v[i].track_id] < Len(arg.mcp_v)

\* the indices the path of a trajectory of n points is to hold when S is its
\* non-empty set of in-detector indices
Padded(S, n) ==
  S \cup (IF Min(S) > 0 THEN {Min(S) - 1} ELSE {})
    \cup (IF Max(S) + 1 < n THEN {Max(S) + 1} ELSE {})

\* C7: after AddParticles the path of a particle of a saved species with a
\* non-empty set S of in-detector points holds exactly the points of S, the
\* point before min(S) when there is one and the point after max(S) when there
\* is one, in ascending order.
C7_PaddedPath ==
  Ingested
    => \A i \in 1..Len(arg.mcp_v) :
         LET traj == arg.mcp_v[i].Traj
             S == InDetIndices(box, traj)
         IN  (arg.mcp_v[i].PdgCode \in pdg_list /\ S # {})
               => parts[i].det_path = PathAt(traj, Padded(S, Len(traj)))

\* C8: when AncestorTrackID returns for a valid position, the record's cached
\* ancestor is set and is the returned value.
C8_ResultIsCached ==
  AncestorReturned
    => /\ At(parts, arg).ancestor # kINVALID_UINT
       /\ At(parts, arg).ancestor = ret

\* C9: within one event every AncestorTrackID of a valid position returns the
\* value the first such call returned for that position, whatever queries
\* came in between.
C9_SameAncestorEveryCall ==
  AncestorReturned => ret = first_anc[arg + 1]

\* C9: a later call for a position was answered from the cache (no loop
\* iteration) while another position has been resolved to another value.
C9_Witness ==
  /\ AncestorReturned
  /\ steps = 0
  /\ At(parts, arg).ancestor = ret
  /\ At(parts, arg).mother # ret
  /\ \E i \in 1..Len(parts) : first_anc[i] # NoValue /\ first_anc[i] # ret

\* C10: a query never changes a cached ancestor that is set.
C10_WriteOnce ==
  [][\A i \in 1..Len(parts) :
       (parts[i].ancestor # kINVALID_UINT /\ op' # "AddParticles")
         => (i <= Len(parts') /\ parts'[i].ancestor = parts[i].ancestor)]_vars

\* C10: AncestorTrackID cached its result on one record while another record
\* holds another cached ancestor.
C10_Witness ==
  /\ AncestorReturned
  /\ steps > 0
  /\ At(parts, arg).ancestor = ret
  /\ \E i \in 1..Len(parts) :
       /\ i # arg + 1
       /\ parts[i].ancestor # kINVALID_UINT
       /\ parts[i].ancestor # ret

\* C11: MotherTrackID and AncestorTrackID of a position at or past the end of
\* the list (any position when the list is empty) return kINVALID_UINT at
\* once, without an exception, and leave the list, every cached ancestor and
\* the index as they were.
C11_OutOfRangeIsSentinel ==
  [][(/\ pc = "idle"
      /\ op' \in {"MotherTrackID", "AncestorTrackID"}
      /\ arg' >= Len(parts))
       => /\ pc' = "returned"
          /\ ret' = kINVALID_UINT
          /\ ~thrown'
          /\ parts' = parts
          /\ track_index' = track_index]_vars

\* C11: a query past the end has returned on a list that holds records, one
\* of them with a cached ancestor.
C11_Witness ==
  /\ pc = "returned"
  /\ op \in {"MotherTrackID", "AncestorTrackID"}
  /\ arg > Len(parts)
  /\ ret = kINVALID_UINT
  /\ \E i \in 1..Len(parts) : parts[i].ancestor # kINVALID_UINT

\* C12: InDetector(x, y, z) is true exactly when every coordinate lies between
\* the two bounds of its own axis, the bounds included.
C12_ClosedBox ==
  Returned("InDetector")
    => ret = (/\ box.x_min <= arg[1] /\ arg[1] <= box.x_max
              /\ box.y_min <= arg[2] /\ arg[2] <= box.y_max
              /\ box.z_min <= arg[3] /\ arg[3] <= box.z_max)

\* C12: in the box [0,10]^3 a point with coordinates on three faces was
\* found inside.
C12_Witness ==
  /\ Returned("InDetector")
  /\ box = FiducialBox({TPCWhole})
  /\ arg = <<10, 0, 10>>
  /\ ret = TRUE

\* C13: after AddParticles the record built from a particle has a path (a
\* non-empty one) exactly when the particle's PDG code is in SavePathPDGList
\* and at least one of its trajectory points is in the detector.
C13_PathIffSavedAndInside ==
  Ingested
    => \A i \in 1..Len(arg.mcp_v) :
         LET mcp == arg.mcp_v[i]
         IN  (parts[i].det_path # <<>>)
               <=> (/\ mcp.PdgCode \in pdg_list
                    /\ \E k \in 1..Len(mcp.Traj) :
                         InDetector(box, mcp.Traj[k].pos[1], mcp.Traj[k].pos[2],
                                    mcp.Traj[k].pos[3]))

\* C13: a muon that starts outside the detector and enters it on its last
\* point got a path.
C13_Witness ==
  /\ Ingested
  /\ Len(arg.mcp_v) = 1
  /\ arg.mcp_v[1].PdgCode = 13
  /\ Len(arg.mcp_v[1].Traj) = MaxTraj
  /\ InDetIndices(box, arg.mcp_v[1].Traj) = {MaxTraj - 1}
  /\ parts[1].det_path # <<>>

\* C14: a constructor handed a geometry without any TPC ends in an exception.
C14_ZeroTPCsRejected ==
  (op = "MCRecoPart" /\ arg = {}) => thrown

\* C15: every AncestorTrackID call that enters the while(1) loop comes out of
\* it and returns.
C15_ClimbTerminates == (pc = "climb") ~> (pc = "returned")

\* C16: after an AddParticles that did not throw, the list holds the records
\* of the particle vector in input order (particle i at position i) followed
\* by the dropped particles and nothing else, the index holds the track ids of
\* the two vectors and no other (a track id that only the event before held
\* gives kINVALID_UINT), and no record carries a cached ancestor.
C16_IngestReplaces ==
  Ingested
    => /\ Len(parts) = Len(arg.mcp_v) + Len(arg.mcmp_v)
       /\ \A i \in 1..Len(arg.mcp_v) :
            /\ parts[i].track_id = arg.mcp_v[i].TrackId
            /\ parts[i].mother = arg.mcp_v[i].Mother
            /\ parts[i].origin = arg.orig_v[i]
       /\ \A j \in 1..Len(arg.mcmp_v) : parts[Len(arg.mcp_v) + j] = arg.mcmp_v[j]
       /\ DOMAIN track_index = FullIds \cup DroppedIds
       /\ \A t \in prev_event.ids \ (FullIds \cup DroppedIds) :
            TrackToParticleIndex(track_index, t) = kINVALID_UINT
       /\ \A i \in 1..Len(parts) : parts[i].ancestor = kINVALID_UINT

\* C16: an event was ingested over an event that held a track id the new one
\* does not hold and a record with a cached ancestor.
C16_Witness ==
  /\ Ingested
  /\ Len(parts) > 0
  /\ prev_event.cached
  /\ prev_event.ids \ (FullIds \cup DroppedIds) # {}

\* C17: no step of MotherTrackID changes the list or the index; no step of
\* AncestorTrackID(p) changes the index, the number or order of the records
\* or any record, but for the ancestor of the record at position p.
C17_QueryFrame ==
  [][(op' \in {"MotherTrackID", "AncestorTrackID"})
       => /\ track_index' = track_index
          /\ Len(parts') = Len(parts)
          /\ \A i \in 1..Len(parts) :
               IF op' = "AncestorTrackID" /\ i = arg' + 1
               THEN [parts'[i] EXCEPT !.ancestor = parts[i].ancestor] = parts[i]
               ELSE parts'[i] = parts[i]]_vars

\* C17: a climb of two iterations or more cached its result on the record
\* asked about, and the record of that particle's mother, which the climb went
\* through, has no cached ancestor.
C17_Witness ==
  /\ AncestorReturned
  /\ steps >= 2
  /\ At(parts, arg).ancestor = ret
  /\ \E i \in 1..Len(parts) :
       /\ i # arg + 1
       /\ parts[i].track_id = At(parts, arg).mother
       /\ parts[i].ancestor = kINVALID_UINT

\* r is where the climb can go no further: the index holds r and MotherTrackID
\* of its record is r itself, or the index does not hold r and no record lists
\* r as a daughter
FixedPoint(r) ==
  IF r \in DOMAIN track_index
  THEN MotherTrackID(parts, track_index, track_index[r]) = r
  ELSE \A i \in 1..Len(parts) : r \notin parts[i].daughters

\* no record but the one asked about holds a cached ancestor, and that one
\* holds none or the value just returned: the list is as AddParticles left it
\* but for calls of AncestorTrackID for this very position
FreshBut(p) ==
  \A i \in 1..Len(parts) :
    \/ parts[i].ancestor = kINVALID_UINT
    \/ (i = p + 1 /\ parts[i].ancestor = ret)

C19_IndexSound ==
  \A t \in DOMAIN track_index :
    /\ track_index[t] < Len(parts)
    /\ At(parts, track_index[t]).track_id = t

\* C19: an event with a track id repeated in the particle vector and again
\* in the dropped vector has been ingested.
C19_Witness ==
  /\ Ingested
  /\ Len(arg.mcp_v) = 2
  /\ arg.mcp_v[1].TrackId = arg.mcp_v[2].TrackId
  /\ Len(arg.mcmp_v) = 1
  /\ arg.mcmp_v[1].track_id = arg.mcp_v[1].TrackId
  /\ DOMAIN track_index = {arg.mcp_v[1].TrackId}
  /\ Len(parts) = 3

\* C20: within one event, when AncestorTrackID has returned for a position p
\* whose MotherTrackID m is not the record's own track id and is in the index,
\* and for the position the index gives for m, in whichever order, the two
\* calls returned the same value.
C20_SameAncestorAsMother ==
  \A p \in 0..(Len(parts) - 1) :
    LET m == MotherTrackID(parts, track_index, p)
    IN  (/\ m # At(parts, p).track_id
         /\ m \in DOMAIN track_index
         /\ first_anc[p + 1] # NoValue
         /\ first_anc[track_index[m] + 1] # NoValue)
          => first_anc[p + 1] = first_anc[track_index[m] + 1]

\* C20: AncestorTrackID has just returned for the mother of a particle asked
\* about before, with the value returned then, an ancestor above the mother
\* and the mother's own mother.
C20_Witness ==
  /\ AncestorReturned
  /\ steps >= 2
  /\ \E p \in 0..(Len(parts) - 1) :
       /\ p # arg
       /\ MotherTrackID(parts, track_index, p) = At(parts, arg).track_id
       /\ TrackToParticleIndex(track_index, At(parts, arg).track_id) = arg
       /\ At(parts, p).ancestor = ret
       /\ first_anc[p + 1] = ret
  /\ ret # At(parts, arg).track_id
  /\ ret # At(parts, arg).mother

====
